---- MODULE Spec2Model ----
(***************************************************************************)
(* AES (Rijndael) block cipher chained in CBC mode, as implemented in      *)
(* src/main.rs: field arithmetic, word and block transformations, key      *)
(* schedule, forward and inverse cipher, padding and block segmentation,   *)
(* and the encrypt / decrypt pipeline.                                     *)
(*                                                                         *)
(* Bytes are integers in 0..255.  A Word is a sequence of 4 bytes, a Block *)
(* a sequence of 4 Words, a byte buffer (slice, Vec<u8>) a sequence of     *)
(* bytes.  Rust's 0-based index k is position k+1 here.                    *)
(***************************************************************************)
EXTENDS Integers, Sequences, FiniteSets, TLC

(***************************************************************************)
(* Program constants                                                       *)
(***************************************************************************)
\* static NB: u8 = 4 (block size in words)
NB == 4

\* static R_CON: [u8; 10]
R_CON == <<1, 2, 4, 8, 16, 32, 64, 128, 27, 54>>

\* sbox::SBOX, the forward substitution table (module sbox; the AES S-box),
\* indexed here by byte value + 1
SBOX == <<
     99, 124, 119, 123, 242, 107, 111, 197,  48,   1, 103,  43, 254, 215, 171, 118,
    202, 130, 201, 125, 250,  89,  71, 240, 173, 212, 162, 175, 156, 164, 114, 192,
    183, 253, 147,  38,  54,  63, 247, 204,  52, 165, 229, 241, 113, 216,  49,  21,
      4, 199,  35, 195,  24, 150,   5, 154,   7,  18, 128, 226, 235,  39, 178, 117,
      9, 131,  44,  26,  27, 110,  90, 160,  82,  59, 214, 179,  41, 227,  47, 132,
     83, 209,   0, 237,  32, 252, 177,  91, 106, 203, 190,  57,  74,  76,  88, 207,
    208, 239, 170, 251,  67,  77,  51, 133,  69, 249,   2, 127,  80,  60, 159, 168,
     81, 163,  64, 143, 146, 157,  56, 245, 188, 182, 218,  33,  16, 255, 243, 210,
    205,  12,  19, 236,  95, 151,  68,  23, 196, 167, 126,  61, 100,  93,  25, 115,
     96, 129,  79, 220,  34,  42, 144, 136,  70, 238, 184,  20, 222,  94,  11, 219,
    224,  50,  58,  10,  73,   6,  36,  92, 194, 211, 172,  98, 145, 149, 228, 121,
    231, 200,  55, 109, 141, 213,  78, 169, 108,  86, 244, 234, 101, 122, 174,   8,
    186, 120,  37,  46,  28, 166, 180, 198, 232, 221, 116,  31,  75, 189, 139, 138,
    112,  62, 181, 102,  72,   3, 246,  14,  97,  53,  87, 185, 134, 193,  29, 158,
    225, 248, 152,  17, 105, 217, 142, 148, 155,  30, 135, 233, 206,  85,  40, 223,
    140, 161, 137,  13, 191, 230,  66, 104,  65, 153,  45,  15, 176,  84, 187,  22
>>

\* sbox::INV_SBOX, the inverse substitution table: the inverse permutation
\* of SBOX
INV_SBOX == [b \in 0..255 |-> (CHOOSE x \in 0..255 : SBOX[x + 1] = b)]

(***************************************************************************)
(* u8 arithmetic                                                           *)
(***************************************************************************)
\* the ^ operator on u8
RECURSIVE BitXor(_, _)
BitXor(a, b) ==
    IF a = 0 THEN b
    ELSE IF b = 0 THEN a
    ELSE ((a + b) % 2) + 2 * BitXor(a \div 2, b \div 2)

\* usize / u8 narrowing: `x as u8`
AsU8(x) == x % 256

\* a fixed array of 4 elements ([u8; 4], [Word; 4]) holding f[1]..f[4]
Array4(f) == <<f[1], f[2], f[3], f[4]>>

(***************************************************************************)
(* Galois field arithmetic                                                 *)
(***************************************************************************)
\* Depth of nested gf_mult calls the call stack is taken to hold; a call
\* that would nest deeper ends the process (stack overflow) and returns
\* nothing, written -1.
StackLimit == 9

gf_double(a) ==
    LET h  == (a \div 128) % 2
        b0 == (a * 2) % 256
        b1 == BitXor(b0, h * 27)
    IN  b1 % 256

RECURSIVE gf_mult_at(_, _, _)
gf_mult_at(a, b, depth) ==
    IF b = 1 THEN a
    ELSE IF depth >= StackLimit THEN -1
    ELSE LET c == b % 2
             r == gf_mult_at(gf_double(a), (b - c) \div 2, depth + 1)
         IN  IF r = -1 THEN -1 ELSE BitXor(r, c * a)

gf_mult(a, b) == gf_mult_at(a, b, 0)

(***************************************************************************)
(* Word operations                                                         *)
(***************************************************************************)
\* impl BitXor / BitXorAssign for Word
Word_bitxor(w, rhs) == Array4([k \in 1..4 |-> BitXor(w[k], rhs[k])])

\* [u8; 4]::rotate_left(1) / rotate_right(1)
rotate_left(bytes) == <<bytes[2], bytes[3], bytes[4], bytes[1]>>
rotate_right(bytes) == <<bytes[4], bytes[1], bytes[2], bytes[3]>>

rot_word(w) == rotate_left(w)

sub_word(w) == Array4([k \in 1..4 |-> SBOX[w[k] + 1]])

inv_sub_word(w) == Array4([k \in 1..4 |-> INV_SBOX[w[k]]])

\* one right-hand side of mix_column:
\* gf_double(a) ^ b ^ c ^ gf_double(d) ^ d
mix_row(a, b, c, d) ==
    BitXor(BitXor(BitXor(BitXor(gf_double(a), b), c), gf_double(d)), d)

\* The four assignments run in order on the same array: each one reads the
\* bytes already overwritten by the ones before it.
mix_column(w) ==
    LET s1 == [w  EXCEPT ![1] = mix_row(w[1], w[4], w[3], w[2])]
        s2 == [s1 EXCEPT ![2] = mix_row(s1[2], s1[1], s1[4], s1[3])]
        s3 == [s2 EXCEPT ![3] = mix_row(s2[3], s2[2], s2[1], s2[4])]
        s4 == [s3 EXCEPT ![4] = mix_row(s3[4], s3[3], s3[2], s3[1])]
    IN  s4

inv_mix_column(w) ==
    LET u == gf_mult(BitXor(w[1], w[3]), 4)
        v == gf_mult(BitXor(w[2], w[4]), 4)
    IN  mix_column(Array4([k \in 1..4 |->
                     BitXor(w[k], IF k % 2 = 1 THEN u ELSE v)]))

(***************************************************************************)
(* Block operations                                                        *)
(***************************************************************************)
\* Block::new: byte i goes to words[i / 4].bytes[i % 4]
Block_new(bytes) ==
    <<SubSeq(bytes, 1, 4), SubSeq(bytes, 5, 8),
      SubSeq(bytes, 9, 12), SubSeq(bytes, 13, 16)>>

\* Block::as_bytes: byte i comes from words[i / 4].bytes[i % 4]
as_bytes(block) == block[1] \o block[2] \o block[3] \o block[4]

\* impl BitXor / BitXorAssign for Block
Block_bitxor(b, rhs) ==
    Array4([k \in 1..4 |-> Word_bitxor(b[k], rhs[k])])

\* The six transformations below take `self` by value.  Block is Copy, so
\* the call works on a copy of the caller's block, and `for mut w in
\* self.words` binds each word of that copy to a fresh local `w`; the
\* transformed words are dropped when the loop body ends.  Each operator
\* gives the caller's block as it is after the call returns.
sub_bytes(state) ==
    LET dropped == Array4([k \in 1..4 |-> sub_word(state[k])]) IN state

inv_sub_bytes(state) ==
    LET dropped == Array4([k \in 1..4 |-> inv_sub_word(state[k])]) IN state

shift_rows(state) ==
    LET dropped == Array4([k \in 1..4 |-> rotate_left(state[k])]) IN state

inv_shift_rows(state) ==
    LET dropped == Array4([k \in 1..4 |-> rotate_right(state[k])]) IN state

mix_columns(state) ==
    LET dropped == Array4([k \in 1..4 |-> mix_column(state[k])]) IN state

inv_mix_columns(state) ==
    LET dropped == Array4([k \in 1..4 |-> inv_mix_column(state[k])]) IN state

\* add_round_key takes &mut self: the caller's block is updated
add_round_key(state, key) ==
    Array4([k \in 1..4 |-> Word_bitxor(state[k], key[k])])

(***************************************************************************)
(* Padding and block segmentation                                          *)
(***************************************************************************)
\* `let length = bytes.len() as u8; let padding = 4*NB - (length % 4*NB);`
\* % and * have the same precedence and associate to the left.
padding_of(bytes) ==
    LET length == AsU8(Len(bytes))
    IN  4 * NB - ((length % 4) * NB)

\* padded_bytes after the two extend_from_slice calls
padded_bytes_of(bytes) ==
    LET padding == padding_of(bytes)
    IN  bytes \o [i \in 1..padding |-> padding]

\* "convert bytes to words": padded_bytes.len() / 4 words, whole ones only
bytes_to_words(padded_bytes) ==
    [i \in 1..(Len(padded_bytes) \div 4) |->
        <<padded_bytes[4 * (i - 1) + 1], padded_bytes[4 * (i - 1) + 2],
          padded_bytes[4 * (i - 1) + 3], padded_bytes[4 * (i - 1) + 4]>>]

\* "convert words to blocks": a block of zero bytes is pushed for every
\* fourth word, then word i is stored in blocks[i / 4].words[i % 4]
words_to_blocks(words) ==
    [k \in 1..((Len(words) + 3) \div 4) |->
        [j \in 1..4 |->
            IF 4 * (k - 1) + j <= Len(words)
            THEN words[4 * (k - 1) + j]
            ELSE <<0, 0, 0, 0>>]]

bytes_to_blocks(bytes) ==
    words_to_blocks(bytes_to_words(padded_bytes_of(bytes)))

(***************************************************************************)
(* Key schedule                                                            *)
(***************************************************************************)
rcon(j) == <<R_CON[j + 1], 0, 0, 0>>

\* the "key expansion" loop from index i on; w holds words 0..i-1
RECURSIVE key_expansion_from(_, _, _, _)
key_expansion_from(w, i, nk, nr) ==
    IF i >= NB * (nr + 1) THEN w
    ELSE LET prev == w[i]
             temp == IF i % nk = 0
                     THEN Word_bitxor(sub_word(rot_word(prev)),
                                      rcon((i \div nk) - 1))
                     ELSE IF nk > 6 /\ i % nk = 4
                     THEN sub_word(prev)
                     ELSE prev
         IN  key_expansion_from(
                 Append(w, Word_bitxor(w[i - nk + 1], temp)), i + 1, nk, nr)

key_expansion(key, nk, nr) ==
    LET w0 == [i \in 1..nk |->
                 <<key[4 * (i - 1) + 1], key[4 * (i - 1) + 2],
                   key[4 * (i - 1) + 3], key[4 * (i - 1) + 4]>>]
    IN  words_to_blocks(key_expansion_from(w0, nk, nk, nr))

(***************************************************************************)
(* Forward and inverse cipher on one block                                 *)
(***************************************************************************)
\* body of `for i in 1..n_rounds` in cipher
cipher_round(state, rk) ==
    add_round_key(mix_columns(shift_rows(sub_bytes(state))), rk)

\* the loop from round i on; a Block always has 4 words (the test on
\* Len makes TLC compute each round's state before the next round)
RECURSIVE cipher_rounds(_, _, _, _)
cipher_rounds(state, i, n_rounds, w) ==
    IF i >= n_rounds \/ Len(state) # 4 THEN state
    ELSE cipher_rounds(cipher_round(state, w[i + 1]), i + 1, n_rounds, w)

cipher(inblock, n_rounds, w) ==
    LET s0 == add_round_key(inblock, w[1])
        s1 == cipher_rounds(s0, 1, n_rounds, w)
    IN  add_round_key(shift_rows(sub_bytes(s1)), w[n_rounds + 1])

\* body of `for i in (1..n_rounds).rev()` in inv_cipher
inv_cipher_round(state, rk) ==
    inv_mix_columns(add_round_key(inv_sub_bytes(inv_shift_rows(state)), rk))

\* the loop from round i down
RECURSIVE inv_cipher_rounds(_, _, _)
inv_cipher_rounds(state, i, w) ==
    IF i < 1 \/ Len(state) # 4 THEN state
    ELSE inv_cipher_rounds(inv_cipher_round(state, w[i + 1]), i - 1, w)

inv_cipher(inblock, n_rounds, w) ==
    LET s0 == add_round_key(inblock, w[n_rounds + 1])
        s1 == inv_cipher_rounds(s0, n_rounds - 1, w)
    IN  add_round_key(inv_sub_bytes(inv_shift_rows(s1)), w[1])

\* determine_key_length with ranges for arms (16.., 24.., 32..) in place of
\* the three lengths: a variant used to test the key-length property
determine_key_length_ranges(key) ==
    IF Len(key) >= 32 THEN [panic |-> FALSE, nk |-> 8, nr |-> 14]
    ELSE IF Len(key) >= 24 THEN [panic |-> FALSE, nk |-> 6, nr |-> 12]
    ELSE IF Len(key) >= 16 THEN [panic |-> FALSE, nk |-> 4, nr |-> 10]
    ELSE [panic |-> TRUE, nk |-> 0, nr |-> 0]

\* match key.len(): the (nk, nr) pair, or the panic "invalid key length"
determine_key_length(key) ==
    IF Len(key) = 16 THEN [panic |-> FALSE, nk |-> 4, nr |-> 10]
    ELSE IF Len(key) = 24 THEN [panic |-> FALSE, nk |-> 6, nr |-> 12]
    ELSE IF Len(key) = 32 THEN [panic |-> FALSE, nk |-> 8, nr |-> 14]
    ELSE [panic |-> TRUE, nk |-> 0, nr |-> 0]

\* aes / inv_aes for a key that determine_key_length accepts
aes(inblock, key) ==
    LET kl == determine_key_length(key)
        w  == key_expansion(key, kl.nk, kl.nr)
    IN  cipher(inblock, kl.nr, w)

inv_aes(inblock, key) ==
    LET kl == determine_key_length(key)
        w  == key_expansion(key, kl.nk, kl.nr)
    IN  inv_cipher(inblock, kl.nr, w)

(***************************************************************************)
(* One step of the CBC loops                                               *)
(***************************************************************************)
\* body of `for block in blocks` in encrypt: the emitted bytes and the new
\* chain
encrypt_step(block, chain, key) ==
    LET c == aes(Block_bitxor(block, chain), key)
    IN  [emit |-> as_bytes(c), chain |-> c]

\* decrypt's loop body with `chain` set to the decrypted block in place of
\* the ciphertext block: a variant used to test the chaining property
decrypt_step_chain_plain(block, chain, key) ==
    LET p == Block_bitxor(inv_aes(block, key), chain)
    IN  [emit |-> as_bytes(p), chain |-> p]

\* body of `for block in blocks` in decrypt: the emitted bytes and the new
\* chain
decrypt_step(block, chain, key) ==
    [emit  |-> as_bytes(Block_bitxor(inv_aes(block, key), chain)),
     chain |-> block]

\* plain as decrypt's loop leaves it (before "remove padding"), for a key
\* that determine_key_length accepts
RECURSIVE decrypt_loop(_, _, _, _)
decrypt_loop(blocks, chain, key, plain) ==
    IF blocks = <<>> THEN plain
    ELSE LET s == decrypt_step(Head(blocks), chain, key)
         IN  decrypt_loop(Tail(blocks), s.chain, key, plain \o s.emit)

(***************************************************************************)
(* Inputs                                                                  *)
(***************************************************************************)
\* Largest number of whole 16-byte blocks in an input buffer
MaxBlocks == 2

\* Largest recursion count of the repeated-doubling run
MaxDoublings == 255

Ascii0123456789abcdef ==
    <<48, 49, 50, 51, 52, 53, 54, 55, 56, 57, 97, 98, 99, 100, 101, 102>>

\* FIPS-197 appendix C example vectors
FipsPlain == [k \in 1..16 |-> 17 * (k - 1)]
FipsKey(n) == [k \in 1..n |-> k - 1]
FipsCipher128 ==
    <<105, 196, 224, 216, 106, 123, 4, 48, 216, 205, 183, 128, 112, 180, 197, 90>>
FipsCipher192 ==
    <<221, 169, 124, 164, 134, 76, 223, 224, 110, 175, 112, 160, 236, 13, 113, 145>>
FipsCipher256 ==
    <<142, 162, 183, 202, 81, 103, 69, 191, 234, 252, 73, 144, 75, 73, 96, 137>>

Hello == <<104, 101, 108, 108, 111>>

ValidKeys == {Ascii0123456789abcdef, FipsKey(16), FipsKey(24), FipsKey(32)}
InvalidKeys == {Hello, FipsKey(17)}
Keys == ValidKeys \cup InvalidKeys

ZeroIv == [k \in 1..16 |-> 0]
IVs == {ZeroIv, [k \in 1..16 |-> 160 + k]}

\* byte buffers of every length up to a block and one byte more, and of
\* MaxBlocks blocks and one byte more
Text(n) == [k \in 1..n |-> 64 + k]
Plaintexts ==
    {Text(n) : n \in (0..17) \cup {16 * MaxBlocks, 16 * MaxBlocks + 1}}
        \cup {Hello, FipsPlain}

\* block-aligned buffers of up to MaxBlocks blocks
CipherBlocks == {FipsCipher128, [k \in 1..16 |-> 255]}
RECURSIVE Aligned(_)
Aligned(n) ==
    IF n = 0 THEN {<<>>}
    ELSE {c \o b : c \in Aligned(n - 1), b \in CipherBlocks}
Ciphertexts == UNION {Aligned(n) : n \in 0..MaxBlocks}

Buffers == Plaintexts \cup Ciphertexts

(***************************************************************************)
(* State                                                                   *)
(***************************************************************************)
VARIABLES
    pc,         \* position of the running call
    op,         \* "encrypt" | "decrypt" (main's args[1]), or the function under call
    key,        \* key bytes
    iv,         \* initialization vector, 16 bytes
    bytes,      \* the input buffer read from stdin
    blocks,     \* blocks of bytes_to_blocks still to be processed by the loop
    chain,      \* encrypt / decrypt's `chain`
    out,        \* encrypt's `cipher` / decrypt's `plain`
    stdout,     \* what main wrote to stdout
    panic_msg,  \* message of the panic that ended the process, "" if none
    kl,         \* (nk, nr) of the latest determine_key_length call
    piped,      \* TRUE when bytes is the output of a preceding encrypt run
    orig,       \* the input of that preceding encrypt run
    inblock,    \* aes / inv_aes argument (single-block calls)
    state,      \* cipher / inv_cipher's `state`
    w,          \* the round keys
    i,          \* cipher / inv_cipher's loop variable
    gf_a,       \* gf_mult / gf_double arguments
    gf_b,
    gf_ret,     \* latest value returned, -1 if the call did not return
    gf_n,       \* number of gf_double applications so far
    word,       \* a Word before mix_column / inv_mix_column
    word_ret    \* the Word after them

vars == <<pc, op, key, iv, bytes, blocks, chain, out, stdout, panic_msg, kl,
          piped, orig, inblock, state, w, i, gf_a, gf_b, gf_ret, gf_n, word,
          word_ret>>

cbc_vars == <<op, key, iv, bytes, blocks, chain, out, stdout, panic_msg, kl,
              piped, orig>>
block_vars == <<inblock, state, w, i>>
gf_vars == <<gf_a, gf_b, gf_ret, gf_n>>
word_vars == <<word, word_ret>>

NoKl == [panic |-> FALSE, nk |-> 0, nr |-> 0]
ZeroBlock == Block_new(ZeroIv)

CbcIdle ==
    /\ op = "none" /\ key = <<>> /\ iv = ZeroIv /\ bytes = <<>>
    /\ blocks = <<>> /\ chain = ZeroBlock /\ out = <<>> /\ stdout = <<>>
    /\ panic_msg = "" /\ kl = NoKl /\ piped = FALSE /\ orig = <<>>
BlockIdle == inblock = ZeroBlock /\ state = ZeroBlock /\ w = <<>> /\ i = 0
GfIdle == gf_a = 0 /\ gf_b = 0 /\ gf_ret = 0 /\ gf_n = 0
WordIdle == word = <<0, 0, 0, 0>> /\ word_ret = <<0, 0, 0, 0>>

(***************************************************************************)
(* The encrypt / decrypt pipeline (main, encrypt, decrypt)                 *)
(***************************************************************************)
Init ==
    /\ pc = "main"
    /\ op \in {"encrypt", "decrypt"}
    /\ key \in Keys
    /\ iv \in IVs
    /\ bytes \in Buffers
    /\ blocks = <<>> /\ chain = ZeroBlock /\ out = <<>> /\ stdout = <<>>
    /\ panic_msg = "" /\ kl = NoKl /\ piped = FALSE /\ orig = <<>>
    /\ BlockIdle /\ GfIdle /\ WordIdle

\* encrypt / decrypt up to the loop: bytes_to_blocks, the empty output
\* vector, chain = Block::new(iv)
Call ==
    /\ pc = "main"
    /\ blocks' = bytes_to_blocks(bytes)
    /\ out' = <<>>
    /\ chain' = Block_new(iv)
    /\ pc' = "loop"
    /\ UNCHANGED <<op, key, iv, bytes, stdout, panic_msg, kl, piped, orig>>
    /\ UNCHANGED <<block_vars, gf_vars, word_vars>>

\* aes / inv_aes called with a key determine_key_length rejects
InvalidKeyLength ==
    /\ pc = "loop"
    /\ blocks # <<>>
    /\ determine_key_length(key).panic
    /\ kl' = determine_key_length(key)
    /\ panic_msg' = "invalid key length"
    /\ pc' = "panic"
    /\ UNCHANGED <<op, key, iv, bytes, blocks, chain, out, stdout, piped, orig>>
    /\ UNCHANGED <<block_vars, gf_vars, word_vars>>

EncryptBlock ==
    /\ pc = "loop"
    /\ op = "encrypt"
    /\ blocks # <<>>
    /\ ~determine_key_length(key).panic
    /\ LET s == encrypt_step(Head(blocks), chain, key)
       IN  /\ chain' = s.chain
           /\ out' = out \o s.emit
    /\ kl' = determine_key_length(key)
    /\ blocks' = Tail(blocks)
    /\ UNCHANGED <<pc, op, key, iv, bytes, stdout, panic_msg, piped, orig>>
    /\ UNCHANGED <<block_vars, gf_vars, word_vars>>

DecryptBlock ==
    /\ pc = "loop"
    /\ op = "decrypt"
    /\ blocks # <<>>
    /\ ~determine_key_length(key).panic
    /\ LET s == decrypt_step(Head(blocks), chain, key)
       IN  /\ chain' = s.chain
           /\ out' = out \o s.emit
    /\ kl' = determine_key_length(key)
    /\ blocks' = Tail(blocks)
    /\ UNCHANGED <<pc, op, key, iv, bytes, stdout, panic_msg, piped, orig>>
    /\ UNCHANGED <<block_vars, gf_vars, word_vars>>

\* encrypt returns `cipher`; main writes it to stdout
EncryptReturn ==
    /\ pc = "loop"
    /\ op = "encrypt"
    /\ blocks = <<>>
    /\ stdout' = out
    /\ pc' = "done"
    /\ UNCHANGED <<op, key, iv, bytes, blocks, chain, out, panic_msg, kl,
                   piped, orig>>
    /\ UNCHANGED <<block_vars, gf_vars, word_vars>>

\* "remove padding" when plain.len() - padding does not underflow
RemovePadding ==
    /\ pc = "loop"
    /\ op = "decrypt"
    /\ blocks = <<>>
    /\ LET padding == out[Len(out)]
       IN  /\ padding <= Len(out)
           /\ out' = SubSeq(out, 1, Len(out) - padding)
    /\ stdout' = out'
    /\ pc' = "done"
    /\ UNCHANGED <<op, key, iv, bytes, blocks, chain, panic_msg, kl, piped,
                   orig>>
    /\ UNCHANGED <<block_vars, gf_vars, word_vars>>

\* "remove padding" when plain.len() - padding underflows, in a build with
\* overflow checks: the subtraction panics
RemovePaddingOverflowPanic ==
    /\ pc = "loop"
    /\ op = "decrypt"
    /\ blocks = <<>>
    /\ out[Len(out)] > Len(out)
    /\ panic_msg' = "attempt to subtract with overflow"
    /\ pc' = "panic"
    /\ UNCHANGED <<op, key, iv, bytes, blocks, chain, out, stdout, kl, piped,
                   orig>>
    /\ UNCHANGED <<block_vars, gf_vars, word_vars>>

\* the same in a build without overflow checks: the difference wraps to a
\* length above plain.len() and truncate leaves plain as it is
RemovePaddingOverflowWrap ==
    /\ pc = "loop"
    /\ op = "decrypt"
    /\ blocks = <<>>
    /\ out[Len(out)] > Len(out)
    /\ stdout' = out
    /\ pc' = "done"
    /\ UNCHANGED <<op, key, iv, bytes, blocks, chain, out, panic_msg, kl,
                   piped, orig>>
    /\ UNCHANGED <<block_vars, gf_vars, word_vars>>

\* A second run of the program decrypts what an encrypt run wrote, with the
\* same key and IV.
Pipe ==
    /\ pc = "done"
    /\ op = "encrypt"
    /\ op' = "decrypt"
    /\ bytes' = stdout
    /\ orig' = bytes
    /\ piped' = TRUE
    /\ pc' = "main"
    /\ blocks' = <<>> /\ chain' = ZeroBlock /\ out' = <<>> /\ stdout' = <<>>
    /\ kl' = NoKl
    /\ UNCHANGED <<key, iv, panic_msg>>
    /\ UNCHANGED <<block_vars, gf_vars, word_vars>>

Next ==
    \/ Call
    \/ InvalidKeyLength
    \/ EncryptBlock
    \/ DecryptBlock
    \/ EncryptReturn
    \/ RemovePadding
    \/ RemovePaddingOverflowPanic
    \/ RemovePaddingOverflowWrap
    \/ Pipe

Spec == Init /\ [][Next]_vars

(***************************************************************************)
(* One block through aes / inv_aes, call by call                           *)
(***************************************************************************)
InBlocks ==
    {Block_new(FipsPlain), Block_new(FipsCipher128), ZeroBlock,
     bytes_to_blocks(Hello)[1]}

InitBlock ==
    /\ pc = "enter"
    /\ op \in {"aes", "inv_aes"}
    /\ key \in Keys
    /\ inblock \in InBlocks
    /\ state = ZeroBlock /\ w = <<>> /\ i = 0
    /\ iv = ZeroIv /\ bytes = <<>> /\ blocks = <<>> /\ chain = ZeroBlock
    /\ out = <<>> /\ stdout = <<>> /\ panic_msg = "" /\ kl = NoKl
    /\ piped = FALSE /\ orig = <<>>
    /\ GfIdle /\ WordIdle

\* aes up to the call of cipher, and `let mut state = inblock`
aes_enter ==
    /\ pc = "enter"
    /\ op = "aes"
    /\ kl' = determine_key_length(key)
    /\ IF kl'.panic
       THEN /\ panic_msg' = "invalid key length"
            /\ pc' = "panic"
            /\ UNCHANGED <<state, w, i>>
       ELSE /\ w' = key_expansion(key, kl'.nk, kl'.nr)
            /\ state' = inblock
            /\ i' = 0
            /\ pc' = "add_round_key"
            /\ UNCHANGED panic_msg
    /\ UNCHANGED <<op, key, iv, bytes, blocks, chain, out, stdout, piped,
                   orig, inblock>>
    /\ UNCHANGED <<gf_vars, word_vars>>

\* inv_aes up to the call of inv_cipher, and `let mut state = inblock`
inv_aes_enter ==
    /\ pc = "enter"
    /\ op = "inv_aes"
    /\ kl' = determine_key_length(key)
    /\ IF kl'.panic
       THEN /\ panic_msg' = "invalid key length"
            /\ pc' = "panic"
            /\ UNCHANGED <<state, w, i>>
       ELSE /\ w' = key_expansion(key, kl'.nk, kl'.nr)
            /\ state' = inblock
            /\ i' = kl'.nr
            /\ pc' = "add_round_key"
            /\ UNCHANGED panic_msg
    /\ UNCHANGED <<op, key, iv, bytes, blocks, chain, out, stdout, piped,
                   orig, inblock>>
    /\ UNCHANGED <<gf_vars, word_vars>>

block_frame ==
    /\ UNCHANGED <<cbc_vars, inblock, w>>
    /\ UNCHANGED <<gf_vars, word_vars>>

\* cipher: state.add_round_key(w[0]), w[i] in the loop, w[n_rounds] at the end
cipher_add_round_key ==
    /\ pc = "add_round_key"
    /\ op = "aes"
    /\ state' = add_round_key(state, w[i + 1])
    /\ IF i = kl.nr
       THEN pc' = "return" /\ UNCHANGED i
       ELSE pc' = "sub_bytes" /\ i' = i + 1
    /\ block_frame

cipher_sub_bytes ==
    /\ pc = "sub_bytes"
    /\ state' = sub_bytes(state)
    /\ pc' = "shift_rows"
    /\ UNCHANGED i
    /\ block_frame

\* followed by mix_columns in the loop (i < n_rounds), not after it
cipher_shift_rows ==
    /\ pc = "shift_rows"
    /\ state' = shift_rows(state)
    /\ pc' = IF i < kl.nr THEN "mix_columns" ELSE "add_round_key"
    /\ UNCHANGED i
    /\ block_frame

cipher_mix_columns ==
    /\ pc = "mix_columns"
    /\ state' = mix_columns(state)
    /\ pc' = "add_round_key"
    /\ UNCHANGED i
    /\ block_frame

\* inv_cipher: state.add_round_key(w[n_rounds]), w[i] in the loop (followed
\* by inv_mix_columns), w[0] at the end
inv_cipher_add_round_key ==
    /\ pc = "add_round_key"
    /\ op = "inv_aes"
    /\ state' = add_round_key(state, w[i + 1])
    /\ IF i = kl.nr
       THEN pc' = "inv_shift_rows" /\ i' = i - 1
       ELSE IF i >= 1
       THEN pc' = "inv_mix_columns" /\ UNCHANGED i
       ELSE pc' = "return" /\ UNCHANGED i
    /\ block_frame

inv_cipher_shift_rows ==
    /\ pc = "inv_shift_rows"
    /\ state' = inv_shift_rows(state)
    /\ pc' = "inv_sub_bytes"
    /\ UNCHANGED i
    /\ block_frame

inv_cipher_sub_bytes ==
    /\ pc = "inv_sub_bytes"
    /\ state' = inv_sub_bytes(state)
    /\ pc' = "add_round_key"
    /\ UNCHANGED i
    /\ block_frame

inv_cipher_mix_columns ==
    /\ pc = "inv_mix_columns"
    /\ state' = inv_mix_columns(state)
    /\ pc' = "inv_shift_rows"
    /\ i' = i - 1
    /\ block_frame

NextBlock ==
    \/ aes_enter
    \/ inv_aes_enter
    \/ cipher_add_round_key
    \/ cipher_sub_bytes
    \/ cipher_shift_rows
    \/ cipher_mix_columns
    \/ inv_cipher_add_round_key
    \/ inv_cipher_shift_rows
    \/ inv_cipher_sub_bytes
    \/ inv_cipher_mix_columns

SpecBlock == InitBlock /\ [][NextBlock]_vars

(***************************************************************************)
(* Field arithmetic calls                                                  *)
(***************************************************************************)
GfBytes == {0, 1, 2, 3, 4, 19, 87, 128, 131, 255}

InitGf ==
    /\ pc \in {"gf_mult", "gf_double"}
    /\ gf_a \in GfBytes
    /\ gf_b \in (IF pc = "gf_mult" THEN GfBytes ELSE {0})
    /\ gf_ret = (IF pc = "gf_mult" THEN 0 ELSE gf_a)
    /\ gf_n = 0
    /\ CbcIdle /\ BlockIdle /\ WordIdle

gf_mult_call ==
    /\ pc = "gf_mult"
    /\ gf_ret' = gf_mult(gf_a, gf_b)
    /\ pc' = "gf_mult_done"
    /\ UNCHANGED <<gf_a, gf_b, gf_n>>
    /\ UNCHANGED <<cbc_vars, block_vars, word_vars>>

\* gf_double applied once more to its own result
gf_double_call ==
    /\ pc = "gf_double"
    /\ gf_n < MaxDoublings
    /\ gf_ret' = gf_double(gf_ret)
    /\ gf_n' = gf_n + 1
    /\ UNCHANGED <<pc, gf_a, gf_b>>
    /\ UNCHANGED <<cbc_vars, block_vars, word_vars>>

NextGf == gf_mult_call \/ gf_double_call

SpecGf == InitGf /\ [][NextGf]_vars

(***************************************************************************)
(* Word mixing calls                                                       *)
(***************************************************************************)
WordBytes == {0, 1, 128, 255}
Words == {<<a, b, c, d>> : a \in WordBytes, b \in WordBytes,
                           c \in WordBytes, d \in WordBytes}
             \cup {<<219, 19, 83, 69>>}

InitWord ==
    /\ pc \in {"mix", "mix_then_inv", "inv_then_mix"}
    /\ word \in Words
    /\ word_ret = word
    /\ CbcIdle /\ BlockIdle /\ GfIdle

mix_call ==
    /\ pc = "mix"
    /\ word_ret' = mix_column(word)
    /\ pc' = "mix_done"
    /\ UNCHANGED word
    /\ UNCHANGED <<cbc_vars, block_vars, gf_vars>>

mix_then_inv_call ==
    /\ pc = "mix_then_inv"
    /\ word_ret' = inv_mix_column(mix_column(word))
    /\ pc' = "mix_then_inv_done"
    /\ UNCHANGED word
    /\ UNCHANGED <<cbc_vars, block_vars, gf_vars>>

inv_then_mix_call ==
    /\ pc = "inv_then_mix"
    /\ word_ret' = mix_column(inv_mix_column(word))
    /\ pc' = "inv_then_mix_done"
    /\ UNCHANGED word
    /\ UNCHANGED <<cbc_vars, block_vars, gf_vars>>

NextWord == mix_call \/ mix_then_inv_call \/ inv_then_mix_call

SpecWord == InitWord /\ [][NextWord]_vars

(***************************************************************************)
(* Reference definitions used by the properties                            *)
(***************************************************************************)
ValidKeyLength(k) == Len(k) \in {16, 24, 32}

\* the bytes of a sequence of blocks, in order
RECURSIVE Flatten(_)
Flatten(bs) == IF bs = <<>> THEN <<>> ELSE as_bytes(Head(bs)) \o Flatten(Tail(bs))

\* the j-th 16-byte block of a byte sequence
BlockAt(s, j) == SubSeq(s, 16 * (j - 1) + 1, 16 * j)

\* c2 has the length of c1 and differs from it in block j and in no other
DiffersExactlyInBlock(c1, c2, j) ==
    /\ Len(c2) = Len(c1)
    /\ \A m \in 1..(Len(c1) \div 16) :
          (BlockAt(c1, m) # BlockAt(c2, m)) <=> (m = j)

\* product of polynomials over GF(2) (carry-less product)
RECURSIVE ClMul(_, _)
ClMul(a, b) ==
    IF b = 0 THEN 0
    ELSE BitXor(IF b % 2 = 1 THEN a ELSE 0, 2 * ClMul(a, b \div 2))

\* remainder modulo x^8 + x^4 + x^3 + x + 1 (283) of a polynomial of degree
\* at most k
RECURSIVE PolyMod(_, _)
PolyMod(x, k) ==
    IF k < 8 THEN x
    ELSE PolyMod(IF (x \div (2 ^ k)) % 2 = 1
                 THEN BitXor(x, 283 * (2 ^ (k - 8))) ELSE x, k - 1)

\* product in GF(2^8)
FieldProduct(a, b) == PolyMod(ClMul(a, b), 14)

\* the AES MixColumns matrix (rows 2 3 1 1 / 1 2 3 1 / 1 1 2 3 / 3 1 1 2)
\* applied to a word
AesMixColumn(x) ==
    LET m(p, q, r, s) ==
            BitXor(BitXor(FieldProduct(2, p), FieldProduct(3, q)), BitXor(r, s))
    IN  <<m(x[1], x[2], x[3], x[4]), m(x[2], x[3], x[4], x[1]),
          m(x[3], x[4], x[1], x[2]), m(x[4], x[1], x[2], x[3])>>

\* a block with f applied to each of its words
EachWord(b, f(_)) == <<f(b[1]), f(b[2]), f(b[3]), f(b[4])>>

(***************************************************************************)
(* Properties                                                              *)
(***************************************************************************)
\* C1: decrypting what encrypt produced for p, with the same key and IV,
\* runs to completion and returns exactly p.
C1_RoundTrip ==
    (piped /\ pc \in {"done", "panic"}) => (pc = "done" /\ stdout = orig)

\* C2: aes applied to the FIPS-197 example plaintext block under the
\* example key of each size returns the published ciphertext block.
C2_KnownAnswer ==
    (pc = "return" /\ op = "aes" /\ inblock = Block_new(FipsPlain)) =>
        /\ key = FipsKey(16) => as_bytes(state) = FipsCipher128
        /\ key = FipsKey(24) => as_bytes(state) = FipsCipher192
        /\ key = FipsKey(32) => as_bytes(state) = FipsCipher256

\* C3: the blocks bytes_to_blocks returns are the input followed by
\* p = 16 - (L mod 16) bytes of value p, nothing dropped and nothing added.
C3_PaddingFormula ==
    (pc = "loop" /\ out = <<>>) =>
        LET p == 16 - (Len(bytes) % 16)
        IN  Flatten(blocks) = bytes \o [k \in 1..p |-> p]

\* C4: the number of bytes bytes_to_blocks adds after the input is in 1..16
\* and each of them has that number as its value.
C4_PaddingInvariant ==
    (pc = "loop" /\ out = <<>>) =>
        LET flat == Flatten(blocks)
            n    == Len(flat) - Len(bytes)
        IN  /\ n \in 1..16
            /\ \A k \in 1..n : flat[Len(bytes) + k] = n

\* C5: determine_key_length gives (4, 10), (6, 12), (8, 14) for keys of 16,
\* 24, 32 bytes; with a key of any other length encrypt and decrypt end in
\* the invalid-key-length panic at their first block, with no block
\* processed and nothing written.
C5_KeyLengthValidation ==
    /\ (kl # NoKl /\ Len(key) = 16) => kl = [panic |-> FALSE, nk |-> 4, nr |-> 10]
    /\ (kl # NoKl /\ Len(key) = 24) => kl = [panic |-> FALSE, nk |-> 6, nr |-> 12]
    /\ (kl # NoKl /\ Len(key) = 32) => kl = [panic |-> FALSE, nk |-> 8, nr |-> 14]
    /\ ValidKeyLength(key) => panic_msg # "invalid key length"
    /\ ~ValidKeyLength(key) =>
          /\ out = <<>> /\ stdout = <<>>
          /\ pc \in {"main", "loop", "panic"}
          /\ pc = "loop" => (blocks # <<>> /\ ENABLED InvalidKeyLength)
          /\ pc = "panic" => (panic_msg = "invalid key length" /\ kl.panic)

C5_Witness ==
    /\ pc = "panic" /\ panic_msg = "invalid key length"
    /\ Len(key) = 17 /\ op = "decrypt" /\ blocks # <<>> /\ out = <<>>

\* C6: when a block-aligned ciphertext has been decrypted, any ciphertext of
\* the same length that differs from it in exactly one block j decrypts,
\* under the same key and IV, to output (before padding removal) that
\* differs in blocks j and j+1 and is the same in every other block.
C6_ChainingDependency ==
    (op = "decrypt" /\ pc = "loop" /\ blocks = <<>> /\ Len(bytes) % 16 = 0) =>
        \A c2 \in Ciphertexts : \A j \in 1..(Len(bytes) \div 16) :
            DiffersExactlyInBlock(bytes, c2, j) =>
                LET plain2 == decrypt_loop(bytes_to_blocks(c2), Block_new(iv),
                                           key, <<>>)
                IN  /\ Len(plain2) = Len(out)
                    /\ \A m \in 1..(Len(out) \div 16) :
                          (BlockAt(out, m) # BlockAt(plain2, m))
                              <=> (m \in {j, j + 1})

C6_Witness ==
    /\ op = "decrypt" /\ pc = "loop" /\ blocks = <<>>
    /\ Len(bytes) = 32 /\ Len(out) = 48
    /\ \E c2 \in Ciphertexts :
          /\ DiffersExactlyInBlock(bytes, c2, 1)
          /\ LET plain2 == decrypt_loop(bytes_to_blocks(c2), Block_new(iv),
                                        key, <<>>)
             IN  /\ BlockAt(out, 1) # BlockAt(plain2, 1)
                 /\ BlockAt(out, 2) # BlockAt(plain2, 2)
                 /\ BlockAt(out, 3) = BlockAt(plain2, 3)

\* C7: decrypting a block-aligned ciphertext under a valid key never
\* panics, and the padding count read from the last output byte is at most
\* the length of the output.
C7_PaddingRemovalNeverCrashes ==
    (op = "decrypt" /\ Len(bytes) % 16 = 0 /\ ValidKeyLength(key)) =>
        /\ pc # "panic"
        /\ (pc = "loop" /\ blocks = <<>>) => out[Len(out)] <= Len(out)

\* C8: each transformation call inside cipher / inv_cipher changes the state
\* it is applied to: sub_bytes to the S-box image of every byte,
\* inv_sub_bytes to the inverse S-box image, shift_rows / inv_shift_rows to
\* the rotated bytes, mix_columns / inv_mix_columns to mix_column /
\* inv_mix_column of every word.
C8_TransformationsTakeEffect ==
    [][/\ pc = "sub_bytes" => state' = EachWord(state, sub_word)
       /\ pc = "inv_sub_bytes" => state' = EachWord(state, inv_sub_word)
       /\ pc = "shift_rows" => state' = EachWord(state, rotate_left)
       /\ pc = "inv_shift_rows" => state' = EachWord(state, rotate_right)
       /\ pc = "mix_columns" => state' = EachWord(state, mix_column)
       /\ pc = "inv_mix_columns" => state' = EachWord(state, inv_mix_column)
      ]_vars

\* C9: mix_column multiplies a word by the AES MixColumns matrix, and
\* mix_column and inv_mix_column undo each other in either order.
C9_MixInverse ==
    /\ pc = "mix_done" => word_ret = AesMixColumn(word)
    /\ pc = "mix_then_inv_done" => word_ret = word
    /\ pc = "inv_then_mix_done" => word_ret = word

\* C10: gf_mult(a, b) returns the product of a and b in GF(2^8) for all
\* bytes a and b, gf_mult(a, 1) = a, and 255 applications of gf_double to
\* a nonzero a give a.
C10_FieldMultiplication ==
    /\ pc = "gf_mult_done" => gf_ret = FieldProduct(gf_a, gf_b)
    /\ (pc = "gf_mult_done" /\ gf_b = 1) => gf_ret = gf_a
    /\ (pc = "gf_double" /\ gf_n = 255 /\ gf_a # 0) => gf_ret = gf_a

====
